---------------------------- MODULE Spec2Model ----------------------------
(***************************************************************************)
(* Model of ffprobes3/ffprobes3.py: the FFProbes3 constructor (segmenting  *)
(* ffprobe's stdout, then its stderr, into FFStream objects and            *)
(* partitioning them into the video and audio lists) and the FFStream      *)
(* class (constructor and accessors).                                      *)
(*                                                                         *)
(* A Python str is a sequence of one-character strings.  A line is modelled*)
(* without its trailing newline, which str.strip() removes and the         *)
(* re.match prefix tests never look at.  A Python float is modelled as an  *)
(* exact rational n/d in lowest terms (binary rounding error is not        *)
(* modelled).  An FFStream's __dict__ is a function from keys to values;   *)
(* the entries of FFProbes3.video / .audio are references to the objects   *)
(* of FFProbes3.streams and are modelled as indices into streams.          *)
(***************************************************************************)
EXTENDS Integers, Sequences, FiniteSets, TLC

VARIABLES
    pc,          \* control point of the running constructor / object state
    lines,       \* every line read so far: stdout's lines, then stderr's
    data_lines,  \* FFProbes3.__init__: data_lines; FFStream.__init__: its argument
    streams,     \* FFProbes3.streams (sequence of FFStream __dict__s)
    video,       \* FFProbes3.video   (indices into streams)
    audio,       \* FFProbes3.audio   (indices into streams)
    exc,         \* exception that left the constructor, "" if none
    self,        \* FFStream.__dict__ of the object under test
    ret          \* the last accessor call on self and what it produced

vars == <<pc, lines, data_lines, streams, video, audio, exc, self, ret>>

---------------------------------------------------------------------------
(* Bounds *)

\* lines read from both channels together
MaxLines == 6
\* numerators and denominators of the enumerated N/D rate values
MaxRate == 1
\* length of the free-form data_lines lists given to FFStream
MaxDataLines == 2

---------------------------------------------------------------------------
(* Python str helpers *)

Digits == <<"0", "1", "2", "3", "4", "5", "6", "7", "8", "9">>

IsDigit(c) == \E i \in 1..10 : Digits[i] = c

DigitVal(c) == (CHOOSE i \in 1..10 : Digits[i] = c) - 1

IsSpace(c) == c = " "

AllDigits(s) == \A i \in 1..Len(s) : IsDigit(s[i])

RECURSIVE DecVal(_)
DecVal(s) ==
    IF s = <<>> THEN 0
    ELSE 10 * DecVal(SubSeq(s, 1, Len(s) - 1)) + DigitVal(s[Len(s)])

RECURSIVE ToDec(_)
ToDec(n) ==
    IF n < 10 THEN <<Digits[n + 1]>>
    ELSE ToDec(n \div 10) \o <<Digits[(n % 10) + 1]>>

\* str.strip()
Strip(s) ==
    LET keep == {i \in 1..Len(s) : ~IsSpace(s[i])}
    IN  IF keep = {} THEN <<>>
        ELSE SubSeq(s, CHOOSE i \in keep : \A j \in keep : i <= j,
                       CHOOSE i \in keep : \A j \in keep : j <= i)

\* str.split('='): the pieces between every '='
RECURSIVE SplitEq(_)
SplitEq(s) ==
    LET eqs == {i \in 1..Len(s) : s[i] = "="}
    IN  IF eqs = {} THEN <<s>>
        ELSE LET i == CHOOSE i \in eqs : \A j \in eqs : i <= j
             IN  <<SubSeq(s, 1, i - 1)>> \o SplitEq(SubSeq(s, i + 1, Len(s)))

\* re.match(prefix, s) for a literal pattern: s begins with prefix
StartsWith(s, prefix) ==
    /\ Len(s) >= Len(prefix)
    /\ SubSeq(s, 1, Len(prefix)) = prefix

---------------------------------------------------------------------------
(* Python values and outcomes of a call *)

RECURSIVE GCD(_, _)
GCD(a, b) == IF b = 0 THEN a ELSE GCD(b, a % b)

Abs(x) == IF x < 0 THEN -x ELSE x

RBool(b) == [kind |-> "bool", n |-> IF b THEN 1 ELSE 0, d |-> 1, exc |-> ""]

RInt(n) == [kind |-> "int", n |-> n, d |-> 1, exc |-> ""]

\* the float n/d (d > 0), in lowest terms
RFloat(n, d) ==
    LET g == GCD(Abs(n), d)
    IN  [kind |-> "float", n |-> n \div g, d |-> d \div g, exc |-> ""]

RRaise(e) == [kind |-> "raise", n |-> 0, d |-> 1, exc |-> e]

NoResult == [kind |-> "none", n |-> 0, d |-> 1, exc |-> ""]

IsNumber(r) == r.kind \in {"int", "float"}

\* bool(x) of a number
IsZero(r) == r.n = 0

\* an except ValueError clause that raises FFProbeError; every other
\* exception passes through (an FFProbeError raised inside the try leaves
\* as an FFProbeError whether or not the clause catches it)
CatchValueError(r) ==
    IF r.kind = "raise" /\ r.exc = "ValueError" THEN RRaise("FFProbeError") ELSE r

\* int(s): optional surrounding blanks, optional sign, decimal digits
PyInt(s) ==
    LET t    == Strip(s)
        sign == t # <<>> /\ t[1] \in {"+", "-"}
        body == IF sign THEN Tail(t) ELSE t
    IN  IF body # <<>> /\ AllDigits(body)
        THEN RInt(IF sign /\ t[1] = "-" THEN -DecVal(body) ELSE DecVal(body))
        ELSE RRaise("ValueError")

\* float(s): optional surrounding blanks, optional sign, digits with at
\* most one '.', at least one digit (exponents, inf and nan do not occur
\* in the values this model draws)
PyFloat(s) ==
    LET t    == Strip(s)
        sign == t # <<>> /\ t[1] \in {"+", "-"}
        body == IF sign THEN Tail(t) ELSE t
        dots == {i \in 1..Len(body) : body[i] = "."}
        ip   == IF dots = {} THEN body
                ELSE SubSeq(body, 1, (CHOOSE i \in dots : TRUE) - 1)
        fp   == IF dots = {} THEN <<>>
                ELSE SubSeq(body, (CHOOSE i \in dots : TRUE) + 1, Len(body))
        RECURSIVE Pow10(_)
        Pow10(k) == IF k = 0 THEN 1 ELSE 10 * Pow10(k - 1)
        mag  == DecVal(ip) * Pow10(Len(fp)) + DecVal(fp)
    IN  IF /\ Cardinality(dots) <= 1
           /\ AllDigits(ip) /\ AllDigits(fp)
           /\ Len(ip) + Len(fp) >= 1
        THEN RFloat(IF sign /\ t[1] = "-" THEN -mag ELSE mag, Pow10(Len(fp)))
        ELSE RRaise("ValueError")

\* round(n/d, 2) for n >= 0, d > 0: the nearest hundredth, a tie to even
Round2(n, d) ==
    LET q == (n * 100) \div d
        r == (n * 100) % d
        up == \/ 2 * r > d
              \/ 2 * r = d /\ q % 2 = 1
    IN  RFloat(IF up THEN q + 1 ELSE q, 100)


---------------------------------------------------------------------------
(* class FFStream *)

EmptyDict == [k \in {} |-> <<>>]

K_codec_type == <<"c", "o", "d", "e", "c", "_", "t", "y", "p", "e">>
K_nb_frames == <<"n", "b", "_", "f", "r", "a", "m", "e", "s">>
K_TAG_DURATION == <<"T", "A", "G", ":", "D", "U", "R", "A", "T", "I", "O", "N">>
K_duration == <<"d", "u", "r", "a", "t", "i", "o", "n">>
K_r_frame_rate == <<"r", "_", "f", "r", "a", "m", "e", "_", "r", "a", "t", "e">>
K_avg_frame_rate == <<"a", "v", "g", "_", "f", "r", "a", "m", "e", "_", "r", "a", "t", "e">>
NA == <<"N", "/", "A">>

\* FFStream.__init__: the __dict__ built from data_lines, or the ValueError
\* of unpacking a split that does not give exactly two pieces
RECURSIVE FFStream_init(_, _)
FFStream_init(dl, dict) ==
    IF dl = <<>> THEN [ok |-> TRUE, dict |-> dict]
    ELSE LET parts == SplitEq(Strip(Head(dl)))
         IN  IF Len(parts) # 2 THEN [ok |-> FALSE, dict |-> dict]
             ELSE FFStream_init(Tail(dl), (parts[1] :> parts[2]) @@ dict)

FFStream(dl) == FFStream_init(dl, EmptyDict)

\* self.__dict__[key] used as a condition: KeyError when the key is
\* missing, else the truth value of the string
Truthy(dict, key) ==
    IF key \notin DOMAIN dict THEN RRaise("KeyError")
    ELSE RBool(dict[key] # <<>>)

\* is_audio / is_video / is_subtitle share one body, up to the literal
CodecTypeIs(dict, literal) ==
    LET present == Truthy(dict, K_codec_type)
    IN  IF present.kind = "raise" THEN present
        ELSE RBool(present.n = 1 /\ dict[K_codec_type] = literal)

is_audio(dict) == CodecTypeIs(dict, <<"a", "u", "d", "i", "o">>)

is_video(dict) == CodecTypeIs(dict, <<"v", "i", "d", "e", "o">>)

is_subtitle(dict) == CodecTypeIs(dict, <<"s", "u", "b", "t", "i", "t", "l", "e">>)

\* `self.is_video() or self.is_audio()`
is_video_or_audio(dict) ==
    LET v == is_video(dict)
    IN  IF v.kind = "raise" \/ v.n = 1 THEN v ELSE is_audio(dict)

\* re.search("(\d+)(?:/(\d+))?", raw): the leftmost digit run, and the digit
\* run after a '/' that follows it directly
RateMatch(raw) ==
    LET ds   == {i \in 1..Len(raw) : IsDigit(raw[i])}
        i    == CHOOSE i \in ds : \A j \in ds : i <= j
        RunEnd(from) ==
            CHOOSE e \in from..Len(raw) :
                /\ \A k \in from..e : IsDigit(raw[k])
                /\ e = Len(raw) \/ ~IsDigit(raw[e + 1])
        e1   == RunEnd(i)
        has2 == /\ e1 + 2 <= Len(raw)
                /\ raw[e1 + 1] = "/"
                /\ IsDigit(raw[e1 + 2])
    IN  IF ds = {} THEN [matched |-> FALSE, g1 |-> <<>>, g2 |-> <<>>]
        ELSE [matched |-> TRUE,
              g1 |-> SubSeq(raw, i, e1),
              g2 |-> IF has2 THEN SubSeq(raw, e1 + 2, RunEnd(e1 + 2)) ELSE <<>>]

\* the body both rate getters run on a non-empty raw value, inside the try
ParseRate(raw) ==
    LET m == RateMatch(raw)
    IN  IF m.matched
        THEN IF m.g2 # <<>>
             THEN IF DecVal(m.g2) = 0 THEN RRaise("ZeroDivisionError")
                  ELSE Round2(DecVal(m.g1), DecVal(m.g2))
             ELSE RFloat(DecVal(m.g1), 1)
        ELSE PyFloat(raw)

get_r_frame_rate(dict) ==
    LET present == Truthy(dict, K_r_frame_rate)
    IN  IF present.kind = "raise" THEN present
        ELSE IF present.n = 1 THEN CatchValueError(ParseRate(dict[K_r_frame_rate]))
        ELSE RFloat(0, 1)

get_avg_frame_rate(dict) ==
    LET present == Truthy(dict, K_avg_frame_rate)
    IN  IF present.kind = "raise" THEN present
        ELSE IF present.n = 1 THEN CatchValueError(ParseRate(dict[K_avg_frame_rate]))
        ELSE CatchValueError(RRaise("ValueError"))

\* re.search("^(?:00|(\d\d)):?(?:00|(\d\d)):?(?:00|(\d\d))\.(\d+)", s): three
\* two-digit fields, each optionally followed by ':', then '.' and a digit.
\* A field matched by the literal 00 leaves its group unset and adds nothing;
\* seconds is what the three `if match.group(k)` blocks add up
DurationMatch(s) ==
    LET TwoDigits(p) == p + 1 <= Len(s) /\ IsDigit(s[p]) /\ IsDigit(s[p + 1])
        Skip(p)      == IF p <= Len(s) /\ s[p] = ":" THEN p + 1 ELSE p
        Field(p)     == IF SubSeq(s, p, p + 1) = <<"0", "0">> THEN 0
                        ELSE DecVal(SubSeq(s, p, p + 1))
        p2 == Skip(3)
        p3 == Skip(p2 + 2)
        p4 == p3 + 2
    IN  IF /\ TwoDigits(1) /\ TwoDigits(p2) /\ TwoDigits(p3)
           /\ p4 + 1 <= Len(s) /\ s[p4] = "." /\ IsDigit(s[p4 + 1])
        THEN [matched |-> TRUE,
              seconds |-> Field(1) * 60 * 60 + Field(p2) * 60 + Field(p3)]
        ELSE [matched |-> FALSE, seconds |-> 0]

\* frames_body with the TAG:DURATION branch tried before nb_frames
frames_body_tag_first(dict) ==
    LET tag == Truthy(dict, K_TAG_DURATION)
        m   == DurationMatch(dict[K_TAG_DURATION])
        fps == get_r_frame_rate(dict)
    IN  IF tag.kind = "bool" /\ tag.n = 1 /\ m.matched
        THEN IF fps.kind = "raise" THEN fps
             ELSE RFloat(m.seconds * fps.n, fps.d)
        ELSE IF K_nb_frames \notin DOMAIN dict THEN RRaise("KeyError")
        ELSE IF dict[K_nb_frames] # NA THEN PyInt(dict[K_nb_frames])
        ELSE RRaise("ValueError")

\* the try body of frames()
frames_body(dict) ==
    IF K_nb_frames \notin DOMAIN dict THEN RRaise("KeyError")
    ELSE IF dict[K_nb_frames] # NA THEN PyInt(dict[K_nb_frames])
    ELSE LET tag == Truthy(dict, K_TAG_DURATION)
         IN  IF tag.kind = "raise" THEN tag
             ELSE IF tag.n = 0 THEN RRaise("ValueError")
             ELSE LET m == DurationMatch(dict[K_TAG_DURATION])
                      fps == get_r_frame_rate(dict)
                  IN  IF ~m.matched THEN RInt(0)
                      ELSE IF fps.kind = "raise" THEN fps
                      ELSE RFloat(m.seconds * fps.n, fps.d)

frames(dict) ==
    LET av == is_video_or_audio(dict)
    IN  IF av.kind = "raise" THEN av
        ELSE IF av.n = 0 THEN RInt(0)
        ELSE CatchValueError(frames_body(dict))

\* the try body of duration_seconds()
duration_body(dict) ==
    IF K_duration \notin DOMAIN dict THEN RRaise("KeyError")
    ELSE IF dict[K_duration] # NA THEN PyFloat(dict[K_duration])
    ELSE LET fps == get_avg_frame_rate(dict)
             framenumbers == frames(dict)
         IN  IF fps.kind = "raise" THEN fps
             ELSE IF framenumbers.kind = "raise" THEN framenumbers
             ELSE IF IsZero(fps) THEN RRaise("ZeroDivisionError")
             ELSE RFloat(framenumbers.n * fps.d, framenumbers.d * fps.n)

duration_seconds(dict) ==
    LET av == is_video_or_audio(dict)
    IN  IF av.kind = "raise" THEN av
        ELSE IF av.n = 0 THEN RFloat(0, 1)
        ELSE CatchValueError(duration_body(dict))

---------------------------------------------------------------------------
(* class FFProbes3: __init__ *)

STREAM_START == <<"[", "S", "T", "R", "E", "A", "M", "]">>
STREAM_END == <<"[", "/", "S", "T", "R", "E", "A", "M", "]">>

\* the lines ffprobe may print on either channel
LineSet ==
    { STREAM_START,
      STREAM_END,
      <<"[", "/", "S", "T", "R", "E", "A", "M", "]", "x">>,
      <<"c", "o", "d", "e", "c", "_", "t", "y", "p", "e", "=", "v", "i", "d", "e", "o">>,
      <<"c", "o", "d", "e", "c", "_", "t", "y", "p", "e", "=", "a", "u", "d", "i", "o">>,
      <<"c", "o", "d", "e", "c", "_", "t", "y", "p", "e", "=", "s", "u", "b", "t", "i", "t", "l", "e">>,
      <<"x">> }

\* re.match(r'\[STREAM\]', a)
MatchStart(a) == StartsWith(a, STREAM_START)

\* re.match(r'\[/STREAM\]', a)
MatchEnd(a) == StartsWith(a, STREAM_END)

\* Segment with a start marker that flushes the pending lines as a stream
\* instead of dropping them
Segment_flush_on_start(a, dl, ss) ==
    IF MatchStart(a) \/ MatchEnd(a)
    THEN LET s == FFStream(dl)
         IN  IF MatchStart(a) /\ dl = <<>>
             THEN [ok |-> TRUE, data_lines |-> <<>>, streams |-> ss]
             ELSE IF s.ok
                  THEN [ok |-> TRUE, data_lines |-> <<>>,
                        streams |-> Append(ss, s.dict)]
                  ELSE [ok |-> FALSE, data_lines |-> dl, streams |-> ss]
    ELSE [ok |-> TRUE, data_lines |-> Append(dl, a), streams |-> ss]

\* Segment with a start marker that leaves data_lines as it is
Segment_keep_on_start(a, dl, ss) ==
    IF MatchStart(a) THEN [ok |-> TRUE, data_lines |-> dl, streams |-> ss]
    ELSE IF MatchEnd(a)
         THEN LET s == FFStream(dl)
              IN  IF s.ok
                  THEN [ok |-> TRUE, data_lines |-> <<>>,
                        streams |-> Append(ss, s.dict)]
                  ELSE [ok |-> FALSE, data_lines |-> dl, streams |-> ss]
    ELSE [ok |-> TRUE, data_lines |-> Append(dl, a), streams |-> ss]

\* the body of either read loop for one line a: what becomes of data_lines
\* and streams, or the ValueError of FFStream(data_lines)
Segment(a, dl, ss) ==
    IF MatchStart(a) THEN [ok |-> TRUE, data_lines |-> <<>>, streams |-> ss]
    ELSE IF MatchEnd(a)
         THEN LET s == FFStream(dl)
              IN  IF s.ok
                  THEN [ok |-> TRUE, data_lines |-> <<>>,
                        streams |-> Append(ss, s.dict)]
                  ELSE [ok |-> FALSE, data_lines |-> dl, streams |-> ss]
    ELSE [ok |-> TRUE, data_lines |-> Append(dl, a), streams |-> ss]

\* PartitionStep with the video list filled under the audio test as well
PartitionStep_audio_into_video(dict, k, vs, as) ==
    LET a  == is_audio(dict)
        v  == is_video(dict)
        as2 == IF a.kind = "bool" /\ a.n = 1 THEN Append(as, k) ELSE as
        vs1 == IF a.kind = "bool" /\ a.n = 1 THEN Append(vs, k) ELSE vs
        vs2 == IF v.kind = "bool" /\ v.n = 1 THEN Append(vs1, k) ELSE vs1
    IN  IF a.kind = "raise" THEN [exc |-> a.exc, video |-> vs, audio |-> as]
        ELSE IF v.kind = "raise" THEN [exc |-> v.exc, video |-> vs1, audio |-> as2]
        ELSE [exc |-> "", video |-> vs2, audio |-> as2]

\* one pass of the partition loop, for the stream at index k: is_audio()
\* decides the append to audio, then is_video() the append to video; either
\* call may raise
PartitionStep(dict, k, vs, as) ==
    LET a  == is_audio(dict)
        v  == is_video(dict)
        as2 == IF a.kind = "bool" /\ a.n = 1 THEN Append(as, k) ELSE as
        vs2 == IF v.kind = "bool" /\ v.n = 1 THEN Append(vs, k) ELSE vs
    IN  IF a.kind = "raise" THEN [exc |-> a.exc, video |-> vs, audio |-> as]
        ELSE IF v.kind = "raise" THEN [exc |-> v.exc, video |-> vs, audio |-> as2]
        ELSE [exc |-> "", video |-> vs2, audio |-> as2]

\* the partition loop over streams[k..], until a pass raises
RECURSIVE Partition(_, _, _, _)
Partition(ss, k, vs, as) ==
    IF k > Len(ss) THEN [exc |-> "", video |-> vs, audio |-> as]
    ELSE LET r == PartitionStep(ss[k], k, vs, as)
         IN  IF r.exc # "" THEN r
             ELSE Partition(ss, k + 1, r.video, r.audio)

Init ==
    /\ pc = "stdout"
    /\ lines = <<>>
    /\ data_lines = <<>>
    /\ streams = <<>>
    /\ video = <<>>
    /\ audio = <<>>
    /\ exc = ""
    /\ self = EmptyDict
    /\ ret = [op |-> "none", res |-> NoResult]

\* one pass of a read loop: readline() returned the line a
ReadLine(a) ==
    LET r == Segment(a, data_lines, streams)
    IN  /\ Len(lines) < MaxLines
        /\ lines' = Append(lines, a)
        /\ data_lines' = r.data_lines
        /\ streams' = r.streams
        /\ IF r.ok THEN UNCHANGED <<pc, exc>>
           ELSE pc' = "raised" /\ exc' = "ValueError"
        /\ UNCHANGED <<video, audio, self, ret>>

ReadStdout(a) == pc = "stdout" /\ ReadLine(a)

\* p.stdout.readline() returned b'': the second loop starts
EofStdout ==
    /\ pc = "stdout"
    /\ pc' = "stderr"
    /\ UNCHANGED <<lines, data_lines, streams, video, audio, exc, self, ret>>

ReadStderr(a) == pc = "stderr" /\ ReadLine(a)

\* p.stderr.readline() returned b'': both pipes are closed and the streams
\* are partitioned
EofStderr ==
    LET r == Partition(streams, 1, <<>>, <<>>)
    IN  /\ pc = "stderr"
        /\ video' = r.video
        /\ audio' = r.audio
        /\ exc' = r.exc
        /\ pc' = IF r.exc = "" THEN "done" ELSE "raised"
        /\ UNCHANGED <<lines, data_lines, streams, self, ret>>

Next ==
    \/ \E a \in LineSet : ReadStdout(a)
    \/ EofStdout
    \/ \E a \in LineSet : ReadStderr(a)
    \/ EofStderr

Spec == Init /\ [][Next]_vars

---------------------------------------------------------------------------
(* An FFStream built directly from a list of lines, and calls on it *)

FieldLine(key, val) == key \o <<"=">> \o val

\* no line for the key, or one line key=val
Opt(key, vals) == {<<>>} \cup {<<FieldLine(key, v)>> : v \in vals}

CodecTypes == {<<>>, <<"a", "u", "d", "i", "o">>, <<"v", "i", "d", "e", "o">>, <<"s", "u", "b", "t", "i", "t", "l", "e">>}

FrameCounts == {NA, <<"1", "2", "0">>, <<"x">>}

TagDurations == {<<>>, <<"0", "0", ":", "0", "3", ":", "5", "0", ".", "0", "7", "0", "0", "0", "0", "0", "0", "0">>, <<"x">>}

Durations == {NA, <<"2", ".", "5">>, <<"x">>}

\* every N/D with N and D up to MaxRate, and the values of interest
RateValues ==
    {ToDec(n) \o <<"/">> \o ToDec(d) : n \in 0..MaxRate, d \in 0..MaxRate}
        \cup {<<>>, <<"x">>, <<"2", ".", "5">>, <<"2", "5">>, <<"2", "5", "/", "1">>, <<"3", "0", "0", "0", "0", "/", "1", "0", "0", "1">>}

AvgRateValues == {<<>>, <<"x">>, <<"2", ".", "5">>, <<"0", "/", "1">>, <<"2", "5", "/", "1">>}

\* lines as ffprobe prints them, with at most one line per well-known key
\* (no key is the name of an FFStream method, which the entry of __dict__
\* would shadow)
FieldLists ==
    { c \o n \o t \o d \o r \o v :
        c \in Opt(K_codec_type, CodecTypes),
        n \in Opt(K_nb_frames, FrameCounts),
        t \in Opt(K_TAG_DURATION, TagDurations),
        d \in Opt(K_duration, Durations),
        r \in Opt(K_r_frame_rate, RateValues),
        v \in Opt(K_avg_frame_rate, AvgRateValues) }

FreeLines ==
    { <<"a", "=", "1">>, <<"a", "=", "2">>, <<" ", "a", " ", "=", " ", "1", " ">>, <<"b", "=", "1", "=", "2">>, <<"x">>, <<>> }

\* any short list of free-form lines
FreeLists ==
    UNION { [1..n -> FreeLines] : n \in 0..MaxDataLines }

StreamInit ==
    /\ pc = "new"
    /\ data_lines \in FieldLists \cup FreeLists
    /\ lines = <<>>
    /\ streams = <<>>
    /\ video = <<>>
    /\ audio = <<>>
    /\ exc = ""
    /\ self = EmptyDict
    /\ ret = [op |-> "none", res |-> NoResult]

\* FFStream(data_lines)
New ==
    LET s == FFStream(data_lines)
    IN  /\ pc = "new"
        /\ IF s.ok THEN pc' = "ready" /\ self' = s.dict /\ exc' = exc
           ELSE pc' = "raised" /\ self' = self /\ exc' = "ValueError"
        /\ UNCHANGED <<lines, data_lines, streams, video, audio, ret>>

\* a call of one accessor on the constructed object
Call(op, res) ==
    /\ pc = "ready"
    /\ ret' = [op |-> op, res |-> res]
    /\ UNCHANGED <<pc, lines, data_lines, streams, video, audio, exc, self>>

StreamNext ==
    \/ New
    \/ Call("is_audio", is_audio(self))
    \/ Call("is_video", is_video(self))
    \/ Call("is_subtitle", is_subtitle(self))
    \/ Call("frames", frames(self))
    \/ Call("duration_seconds", duration_seconds(self))
    \/ Call("get_r_frame_rate", get_r_frame_rate(self))
    \/ Call("get_avg_frame_rate", get_avg_frame_rate(self))

StreamSpec == StreamInit /\ [][StreamNext]_vars

---------------------------------------------------------------------------
(* Blocks of the input, read off the line sequence itself.  A marker is a  *)
(* line the constructor's re.match tests accept: one that begins with the  *)
(* marker text.                                                            *)

IsMarker(a) == MatchStart(a) \/ MatchEnd(a)

\* <<s, e>>: a start marker at s closed by the end marker at e, with no
\* marker between them
CompleteBlocks(ls) ==
    LET markers == {j \in 1..Len(ls) : IsMarker(ls[j])}
    IN  { b \in markers \X markers :
            /\ b[1] < b[2]
            /\ MatchStart(ls[b[1]])
            /\ MatchEnd(ls[b[2]])
            /\ \A j \in markers : ~(b[1] < j /\ j < b[2]) }

\* end markers that close no block
StrayEnds(ls) ==
    LET closing == {b[2] : b \in CompleteBlocks(ls)}
    IN  {e \in 1..Len(ls) : MatchEnd(ls[e]) /\ e \notin closing}

\* the k-th of a set of blocks, in input order
KthBlock(blocks, k) ==
    CHOOSE b \in blocks : Cardinality({c \in blocks : c[2] <= b[2]}) = k

\* the lines strictly between the markers of a block
BlockLines(ls, b) == SubSeq(ls, b[1] + 1, b[2] - 1)

\* positions of lines that lie in no complete block and are no marker
OutsideLines(ls) ==
    { j \in 1..Len(ls) :
        /\ ~IsMarker(ls[j])
        /\ ~\E b \in CompleteBlocks(ls) : b[1] < j /\ j < b[2] }

BlockFields ==
    LET blocks == CompleteBlocks(lines)
    IN  \A k \in 1..Len(streams) :
            /\ k <= Cardinality(blocks)
            /\ streams[k] = FFStream(BlockLines(lines, KthBlock(blocks, k))).dict

Classification(dict) ==
    IF K_codec_type \notin DOMAIN dict THEN "Other"
    ELSE IF dict[K_codec_type] = <<"a", "u", "d", "i", "o">> THEN "Audio"
    ELSE IF dict[K_codec_type] = <<"v", "i", "d", "e", "o">> THEN "Video"
    ELSE IF dict[K_codec_type] = <<"s", "u", "b", "t", "i", "t", "l", "e">> THEN "Subtitle"
    ELSE "Other"

\* view lists, in order and without repetition, exactly the streams of
\* the class
IsViewOf(view, class) ==
    /\ \A i \in 1..Len(view) :
        /\ view[i] \in 1..Len(streams)
        /\ Classification(streams[view[i]]) = class
    /\ \A i, j \in 1..Len(view) : i < j => view[i] < view[j]
    /\ \A k \in 1..Len(streams) :
        Classification(streams[k]) = class => \E i \in 1..Len(view) : view[i] = k

\* C9: once the report is constructed, video is exactly the subsequence of
\* streams classified Video and audio exactly the subsequence classified
\* Audio, both in the order of streams.
C9_Views ==
    pc = "done" => IsViewOf(video, "Video") /\ IsViewOf(audio, "Audio")

\* a constructed report with a video stream, an audio stream and a stream
\* in neither view
C9_Witness ==
    /\ pc = "done"
    /\ video # <<>>
    /\ audio # <<>>
    /\ Len(streams) > Len(video) + Len(audio)

---------------------------------------------------------------------------
(* Statements about one FFStream and the calls on it *)

Has(key) == key \in DOMAIN self

IsAudioOrVideo == Has(K_codec_type) /\ self[K_codec_type] \in {<<"a", "u", "d", "i", "o">>, <<"v", "i", "d", "e", "o">>}

\* a line split on its first '=' only, key and value each trimmed
FirstEqSplit(line) ==
    LET i == CHOOSE i \in 1..Len(line) :
                 line[i] = "=" /\ \A j \in 1..(i - 1) : line[j] # "="
    IN  [key |-> Strip(SubSeq(line, 1, i - 1)),
         val |-> Strip(SubSeq(line, i + 1, Len(line)))]

HasEq(line) == \E i \in 1..Len(line) : line[i] = "="

\* C2: for a block whose lines each contain an '=', construction succeeds
\* and get(key) returns the trimmed value of the last line written for the
\* key, each line split on its first '=' only.
C2_FieldStore ==
    (pc \in {"ready", "raised"} /\ \A i \in 1..Len(data_lines) : HasEq(data_lines[i]))
        => /\ pc = "ready"
           /\ \A i \in 1..Len(data_lines) :
                LET kv == FirstEqSplit(data_lines[i])
                IN  (\A j \in (i + 1)..Len(data_lines) :
                        FirstEqSplit(data_lines[j]).key # kv.key)
                    => Has(kv.key) /\ self[kv.key] = kv.val

IsRateCall == ret.op \in {"get_r_frame_rate", "get_avg_frame_rate"}

RateKey == IF ret.op = "get_r_frame_rate" THEN K_r_frame_rate ELSE K_avg_frame_rate

\* raw is N/D: two non-empty digit runs around one '/'
IsFraction(raw) ==
    \E i \in 2..(Len(raw) - 1) :
        /\ raw[i] = "/"
        /\ AllDigits(SubSeq(raw, 1, i - 1))
        /\ AllDigits(SubSeq(raw, i + 1, Len(raw)))

Numerator(raw) ==
    DecVal(SubSeq(raw, 1, (CHOOSE i \in 1..Len(raw) : raw[i] = "/") - 1))

Denominator(raw) ==
    DecVal(SubSeq(raw, (CHOOSE i \in 1..Len(raw) : raw[i] = "/") + 1, Len(raw)))

HasSlash(raw) == \E i \in 1..Len(raw) : raw[i] = "/"

\* res is a number of whole hundredths no further than half a hundredth
\* from n/d
IsRounded2(res, n, d) ==
    /\ res.kind = "float"
    /\ 100 % res.d = 0
    /\ LET h == res.n * (100 \div res.d)
       IN  2 * Abs(100 * n - h * d) <= d

\* C3: a rate getter returns N/D rounded to 2 decimal places for a raw
\* value N/D with D non-zero, and the numeric value of the entire raw
\* string for a raw value without '/'.
C3_ParseRate ==
    (IsRateCall /\ Has(RateKey))
        => LET raw == self[RateKey]
           IN  /\ (IsFraction(raw) /\ Denominator(raw) # 0)
                    => IsRounded2(ret.res, Numerator(raw), Denominator(raw))
               /\ (~HasSlash(raw) /\ PyFloat(raw).kind = "float")
                    => ret.res = PyFloat(raw)

\* C4: a rate getter fails with the typed error, and with nothing else,
\* when the field is absent, empty, not numeric, or its denominator is zero.
C4_InvalidRate ==
    (IsRateCall
        /\ \/ ~Has(RateKey)
           \/ self[RateKey] = <<>>
           \/ ~HasSlash(self[RateKey]) /\ PyFloat(self[RateKey]).kind = "raise"
           \/ IsFraction(self[RateKey]) /\ Denominator(self[RateKey]) = 0)
        => ret.res = RRaise("FFProbeError")

\* s is HH:MM:SS.fraction
IsTimestamp(s) ==
    /\ Len(s) >= 10
    /\ \A i \in {1, 2, 4, 5, 7, 8} : IsDigit(s[i])
    /\ s[3] = ":" /\ s[6] = ":" /\ s[9] = "."
    /\ AllDigits(SubSeq(s, 10, Len(s)))

WholeSeconds(s) ==
    DecVal(SubSeq(s, 1, 2)) * 3600 + DecVal(SubSeq(s, 4, 5)) * 60
        + DecVal(SubSeq(s, 7, 8))

\* C5: on an audio or video stream whose nb_frames is absent or 'N/A',
\* frames() returns the whole seconds of TAG:DURATION times the
\* r_frame_rate rate, as an integer, and fails with the typed error when
\* TAG:DURATION is absent too.
C5_FrameCountFallback ==
    (ret.op = "frames" /\ IsAudioOrVideo
        /\ (~Has(K_nb_frames) \/ self[K_nb_frames] = NA))
        => /\ (Has(K_TAG_DURATION) /\ IsTimestamp(self[K_TAG_DURATION])
                /\ IsNumber(get_r_frame_rate(self)))
                => LET rate == get_r_frame_rate(self)
                       secs == WholeSeconds(self[K_TAG_DURATION])
                   IN  /\ IsNumber(ret.res)
                       /\ ret.res.d = 1
                       /\ ret.res.n = (secs * rate.n) \div rate.d
           /\ ~Has(K_TAG_DURATION) => ret.res = RRaise("FFProbeError")

\* what C6 says frames() gives when nb_frames is present and not 'N/A'
NbFramesResult ==
    ret.res = IF PyInt(self[K_nb_frames]).kind = "int"
              THEN PyInt(self[K_nb_frames])
              ELSE RRaise("FFProbeError")

C7_Duration ==
    (ret.op = "duration_seconds" /\ IsAudioOrVideo)
        => IF Has(K_duration) /\ self[K_duration] # NA
           THEN PyFloat(self[K_duration]).kind = "float"
                    => ret.res = PyFloat(self[K_duration])
           ELSE LET f == frames(self)
                    r == get_avg_frame_rate(self)
                IN  (IsNumber(f) /\ IsNumber(r))
                    => ret.res = IF IsZero(r) THEN RRaise("ZeroDivisionError")
                                 ELSE RFloat(f.n * r.d, f.d * r.n)

ClassOf(op) ==
    IF op = "is_audio" THEN "Audio"
    ELSE IF op = "is_video" THEN "Video"
    ELSE "Subtitle"

\* C8: on every Field Store each of is_audio, is_video and is_subtitle
\* returns a truth value without failing, true exactly for its own
\* codec_type, so at most one is true and none is for any other codec_type
\* or none at all.
C8_Classification ==
    ret.op \in {"is_audio", "is_video", "is_subtitle"}
        => /\ ret.res.kind = "bool"
           /\ ret.res.n = 1 <=> Classification(self) = ClassOf(ret.op)

=============================================================================
